---------------------------- MODULE Spec2Model ----------------------------
(***************************************************************************)
(* Booking reconciliation core of SparklingHomeAPI.                        *)
(*                                                                         *)
(* CleaningBookingService.updateBooking is an async handler: it awaits a   *)
(* filtered read of the booking (getOneWhere), builds an update document   *)
(* from the snapshot it read, awaits an unconditional write by id          *)
(* (updateOneById), then hands mails to the notification sink and returns. *)
(* Several calls run concurrently with each other and with the payment     *)
(* webhook, cancellation and deactivation, so the handler is modelled as   *)
(* two steps per call, one for each store operation.                       *)
(*                                                                         *)
(* Monetary amounts are integers counted in 1/Units of a currency unit, so *)
(* that Math.ceil has fractional inputs to round.                          *)
(***************************************************************************)
EXTENDS Integers, FiniteSets, Sequences, TLC

\* ----------------------------------------------------------------- bounds
MaxCalls == 3         \* updateBooking calls started in one behaviour of Spec
MaxReportCalls == 1   \* updateBooking calls started in one behaviour of SpecReport
Units == 2            \* amounts are counted in 1/Units
TopLimit == 10        \* .limit(10) of findTopUsersByBooking

Procs == {1, 2}                  \* updateBooking calls that can be in flight together
BookingIds == {1, 2}             \* the bookings a collection may hold
RequestIds == {0} \cup BookingIds  \* an id a caller may name; 0 is never stored
UserIds == {"u1", "u2"}
Admin == "admin"

\* new Date(): the bookings are created at time 0 and every call of a behaviour
\* reads the clock at the same later instant
Now == 1

\* ------------------------------------------------------------------ enums
BookingInitiated == "BookingInitiated"
BookingServed == "BookingServed"
BookingCompleted == "BookingCompleted"
BookingCancelled == "BookingCancelled"
PaymentPending == "PaymentPending"
PaymentCompleted == "PaymentCompleted"

\* --------------------------------------------------------------- messages
MsgNone == "none"
MsgUpdated == "Booking updated successfully"
MsgNoFields == "No fields to update"
MsgNoActive == "No active booking found with id"
MsgNotEligible == "Booking status is not eligible for update"
MsgCouldNot == "Could not update booking"
HttpOk == "200"
HttpError == "error"

VARIABLES
    bookings,     \* the booking collection: id -> document
    users,        \* the user collection: id -> "active" | "inactive" | "missing"
    pc,           \* per call slot: "idle" | "fetched" (between the read and the write)
    call,         \* per call slot: the request and the snapshot currentBooking
    quota,        \* number of updateBooking calls that may still start
    response,     \* the last response sent: its endpoint and its message or status
    outbox        \* mails handed to the notification sink, with their counts

vars == <<bookings, users, pc, call, quota, response, outbox>>

\* ------------------------------------------------------------------ money
\* Math.ceil of an amount counted in 1/Units, as an amount counted in 1/Units
MathCeil(x) == ((x + Units - 1) \div Units) * Units

TotalOf(cleaningPrice, additionalCharges, suppliesCharges, discountAmount) ==
    MathCeil(cleaningPrice + additionalCharges + suppliesCharges - discountAmount)

\* ------------------------------------------------------------------- data
\* the user collection is not changed by any operation here: a user is active,
\* soft-deleted (inactive) or has no document (missing)
UserStates ==
    { [u \in UserIds |-> "active"],
      [u \in UserIds |-> IF u = "u1" THEN "active" ELSE "inactive"],
      [u \in UserIds |-> IF u = "u1" THEN "missing" ELSE "active"] }

OwnerOf(b) == IF b % 2 = 1 THEN "u1" ELSE "u2"

\* price components a booking is created with: whole amounts for odd ids,
\* a fractional discount for even ids
PriceOf(b) ==
    IF b % 2 = 1
    THEN [cleaningPrice |-> 100 * Units, suppliesCharges |-> 10 * Units,
          discountAmount |-> 5 * Units]
    ELSE [cleaningPrice |-> 80 * Units, suppliesCharges |-> 0,
          discountAmount |-> 5 * Units + 1]

NewBooking(b) ==
    [isActive |-> TRUE,
     bookingStatus |-> BookingInitiated,
     paymentStatus |-> PaymentPending,
     cleaningPrice |-> PriceOf(b).cleaningPrice,
     suppliesCharges |-> PriceOf(b).suppliesCharges,
     discountAmount |-> PriceOf(b).discountAmount,
     additionalCharges |-> 0,
     totalAmount |-> TotalOf(PriceOf(b).cleaningPrice, 0,
                             PriceOf(b).suppliesCharges, PriceOf(b).discountAmount),
     cleaningDate |-> 1,
     remarks |-> "",
     updatedBy |-> OwnerOf(b),
     updatedAt |-> 0,
     bookingUser |-> OwnerOf(b)]

\* UpdateCleaningBookingDto: keys are the fields present in the body; a field
\* that is absent reads as undefined, which is falsy like the defaults here
Dto(keys, cleaningDate, remarks, additionalCharges, markAsServed) ==
    [keys |-> keys, cleaningDate |-> cleaningDate, remarks |-> remarks,
     additionalCharges |-> additionalCharges, markAsServed |-> markAsServed]

Dtos ==
    { Dto({}, 0, "", 0, FALSE),
      Dto({"additionalCharges"}, 0, "", 0, FALSE),
      Dto({"additionalCharges"}, 0, "", 20 * Units, FALSE),
      Dto({"additionalCharges", "remarks"}, 0, "r1", 2 * Units + 1, FALSE),
      Dto({"markAsServed"}, 0, "", 0, TRUE),
      Dto({"cleaningDate"}, 2, "", 0, FALSE),
      Dto({"cleaningDate", "remarks", "additionalCharges", "markAsServed"},
          2, "r1", 20 * Units, TRUE) }

NoCall == [bookingId |-> 0, dto |-> Dto({}, 0, "", 0, FALSE),
           bookingStatus |-> "", cleaningPrice |-> 0, suppliesCharges |-> 0,
           discountAmount |-> 0, bookingUser |-> ""]

\* ------------------------------------------------------------------ store
\* mutant: the filter without isActive
MatchesUpdateFilterAnyActive(doc) ==
    /\ doc.bookingStatus \notin {BookingCancelled, BookingCompleted}
    /\ doc.paymentStatus # PaymentCompleted

\* the filter of getOneWhere in updateBooking
MatchesUpdateFilter(doc) ==
    /\ doc.isActive = TRUE
    /\ doc.bookingStatus \notin {BookingCancelled, BookingCompleted}
    /\ doc.paymentStatus # PaymentCompleted

\* getOneWhere({_id, ...filter}): the ids of the documents it can return
Found(bks, id) == id \in DOMAIN bks /\ MatchesUpdateFilter(bks[id])

\* populate: "bookingUser": the user document, or null when there is none
Populate(usrs, u) == IF usrs[u] = "missing" THEN "null" ELSE u

\* updateOneById(id, updateQuery): sets the fields of updateQuery on document id
updateOneById(bks, id, updateQuery) ==
    [bks EXCEPT ![id] =
        [f \in DOMAIN bks[id] |->
            IF f \in DOMAIN updateQuery THEN updateQuery[f] ELSE bks[id][f]]]

\* ------------------------------------------------------------ updateQuery
WithCleaningDate(q, dto) ==
    IF dto.cleaningDate # 0 THEN [cleaningDate |-> dto.cleaningDate] @@ q ELSE q

WithRemarks(q, dto) ==
    IF dto.remarks # "" THEN [remarks |-> dto.remarks] @@ q ELSE q

\* mutant: the charge is stored and the total is left as it was
WithAdditionalChargesStaleTotal(q, dto, cur) ==
    IF dto.additionalCharges # 0
    THEN [additionalCharges |-> dto.additionalCharges] @@ q
    ELSE q

WithAdditionalCharges(q, dto, cur) ==
    IF dto.additionalCharges # 0
    THEN [additionalCharges |-> dto.additionalCharges,
          totalAmount |-> TotalOf(cur.cleaningPrice, dto.additionalCharges,
                                  cur.suppliesCharges, cur.discountAmount)] @@ q
    ELSE q

WithMarkAsServed(q, dto) ==
    IF dto.markAsServed THEN [bookingStatus |-> BookingServed] @@ q ELSE q

\* mutant: the transition is never refused
ThrowsNotEligibleNever(dto, cur) == FALSE

\* markAsServed on a snapshot that is not Initiated throws
ThrowsNotEligible(dto, cur) ==
    dto.markAsServed /\ cur.bookingStatus # BookingInitiated

UpdateQuery(dto, cur, authUserId, date) ==
    WithMarkAsServed(
        WithAdditionalCharges(
            WithRemarks(
                WithCleaningDate([updatedBy |-> authUserId, updatedAt |-> date], dto),
                dto),
            dto, cur),
        dto)

\* ---------------------------------------------------------------- reports
\* mutant: the match on paymentStatus alone
MatchCompletedPaymentOnly(doc) == doc.paymentStatus = PaymentCompleted

\* .match({bookingStatus: BookingCompleted, paymentStatus: PaymentCompleted})
MatchCompleted(doc) ==
    /\ doc.bookingStatus = BookingCompleted
    /\ doc.paymentStatus = PaymentCompleted

RECURSIVE SumTotalAmount(_, _)
SumTotalAmount(bks, ids) ==
    IF ids = {} THEN 0
    ELSE LET b == CHOOSE x \in ids : TRUE
         IN bks[b].totalAmount + SumTotalAmount(bks, ids \ {b})

\* .group({_id: null, totalEarnings: {$sum: "$totalAmount"}}): one group when a
\* document matched, none otherwise
GroupEarnings(bks) ==
    LET matched == {b \in DOMAIN bks : MatchCompleted(bks[b])}
    IN IF matched = {} THEN <<>>
       ELSE <<[totalEarnings |-> SumTotalAmount(bks, matched)]>>

\* result[0]?.totalEarnings ?? 0
getTotalBookingEarnings(bks) ==
    LET result == GroupEarnings(bks)
    IN IF Len(result) = 0 THEN 0 ELSE result[1].totalEarnings

\* .lookup(active user whose id is bookingUser) and .unwind("$bookingUser"):
\* the matched bookings that keep a user
Unwound(bks, usrs) ==
    {b \in DOMAIN bks : MatchCompleted(bks[b]) /\ usrs[bks[b].bookingUser] = "active"}

\* .group({_id: "$bookingUser", totalBookingCount: {$sum: 1}})
GroupByUser(bks, usrs) ==
    {[bookingUser |-> u,
      totalBookingCount |->
          Cardinality({b \in Unwound(bks, usrs) : bks[b].bookingUser = u})] :
        u \in {bks[b].bookingUser : b \in Unwound(bks, usrs)}}

\* .sort({totalBookingCount: -1})
RECURSIVE SortByCount(_)
SortByCount(groups) ==
    IF groups = {} THEN <<>>
    ELSE LET top == CHOOSE g \in groups :
                        \A h \in groups : h.totalBookingCount <= g.totalBookingCount
         IN <<top>> \o SortByCount(groups \ {top})

\* .limit(10)
Limit(rows, n) == SubSeq(rows, 1, IF Len(rows) < n THEN Len(rows) ELSE n)

findTopUsersByBooking(bks, usrs) == Limit(SortByCount(GroupByUser(bks, usrs)), TopLimit)

\* ------------------------------------------------------------------ mails
ServedMail(to) == [kind |-> "served", to |-> to, date |-> 0]
ConfirmedMail(to, date) == [kind |-> "confirmed", to |-> to, date |-> date]

Count(box, m) == IF m \in DOMAIN box THEN box[m] ELSE 0
Put(box, m) == [x \in DOMAIN box \cup {m} |-> Count(box, x) + IF x = m THEN 1 ELSE 0]

\* the mails updateBooking dispatches after the write
MailsOf(dto, email, updatedDate) ==
    (IF dto.markAsServed THEN <<ServedMail(email)>> ELSE <<>>)
    \o (IF dto.cleaningDate # 0 THEN <<ConfirmedMail(email, updatedDate)>> ELSE <<>>)

\* bookingUser.email is read only inside the two mail branches
ReadsEmail(dto) == dto.markAsServed \/ dto.cleaningDate # 0

RECURSIVE PutAll(_, _)
PutAll(box, ms) == IF ms = <<>> THEN box ELSE PutAll(Put(box, Head(ms)), Tail(ms))

\* a response of updateBooking
Reply(msg) == [endpoint |-> "updateBooking", message |-> msg]

\* ------------------------------------------------------------------- Init
CommonInit ==
    /\ users \in UserStates
    /\ pc = [p \in Procs |-> "idle"]
    /\ call = [p \in Procs |-> NoCall]
    /\ response = [endpoint |-> "none", message |-> MsgNone]
    /\ outbox = <<>>

\* one stored booking, for the interleavings of calls on it
Init ==
    /\ bookings = [b \in {1} |-> NewBooking(b)]
    /\ quota = MaxCalls
    /\ CommonInit

\* every booking of BookingIds stored, for the reports over the collection
InitReport ==
    /\ bookings = [b \in BookingIds |-> NewBooking(b)]
    /\ quota = MaxReportCalls
    /\ CommonInit

\* ---------------------------------------------------------- updateBooking
\* entry of updateBooking up to the result of the awaited getOneWhere
updateBookingLookup(p, bookingId, dto) ==
    /\ pc[p] = "idle"
    /\ \A q \in Procs : q < p => pc[q] # "idle"    \* a call takes the first free slot
    /\ quota > 0
    /\ quota' = quota - 1
    /\ IF Cardinality(dto.keys) < 1
       THEN /\ response' = Reply(MsgNoFields)
            /\ UNCHANGED <<pc, call>>
       ELSE IF ~Found(bookings, bookingId)
       THEN /\ response' = Reply(MsgNoActive)
            /\ UNCHANGED <<pc, call>>
       ELSE /\ pc' = [pc EXCEPT ![p] = "fetched"]
            /\ call' = [call EXCEPT ![p] =
                   [bookingId |-> bookingId, dto |-> dto,
                    bookingStatus |-> bookings[bookingId].bookingStatus,
                    cleaningPrice |-> bookings[bookingId].cleaningPrice,
                    suppliesCharges |-> bookings[bookingId].suppliesCharges,
                    discountAmount |-> bookings[bookingId].discountAmount,
                    bookingUser |-> Populate(users, bookings[bookingId].bookingUser)]]
            /\ UNCHANGED response
    /\ UNCHANGED <<bookings, users, outbox>>

\* from the result of getOneWhere to the end of updateBooking: the update
\* document, the awaited updateOneById, the mails and the response
updateBookingCommit(p) ==
    /\ pc[p] = "fetched"
    /\ pc' = [pc EXCEPT ![p] = "idle"]
    /\ call' = [call EXCEPT ![p] = NoCall]
    /\ LET cur == call[p]
           dto == cur.dto
       IN IF ThrowsNotEligible(dto, cur)
          THEN /\ response' = Reply(MsgNotEligible)
               /\ UNCHANGED <<bookings, outbox>>
          ELSE LET written == updateOneById(bookings, cur.bookingId,
                                            UpdateQuery(dto, cur, Admin, Now))
                   updatedBooking == written[cur.bookingId]
               IN /\ bookings' = written
                  /\ IF ReadsEmail(dto) /\ cur.bookingUser = "null"
                     THEN /\ response' = Reply(MsgCouldNot)
                          /\ UNCHANGED outbox
                     ELSE /\ response' = Reply(MsgUpdated)
                          /\ outbox' = PutAll(outbox,
                                              MailsOf(dto, cur.bookingUser,
                                                      updatedBooking.cleaningDate))
    /\ UNCHANGED <<users, quota>>

\* ---------------------------------------------------------------- webhook
\* PaymentReceiveService.handleWebhookEvent: an event that fails the
\* authenticity check is dropped; an authentic "succeeded" event completes the
\* booking of its intent unless the booking is inactive, cancelled or already
\* paid (a replay); a failure of the processing is thrown to the caller
ServiceThrows(event) == event.authentic /\ event.fails

Completable(doc) ==
    /\ doc.isActive = TRUE
    /\ doc.bookingStatus # BookingCancelled
    /\ doc.paymentStatus # PaymentCompleted

ServiceApply(bks, event) ==
    IF /\ event.authentic
       /\ ~event.fails
       /\ event.bookingId \in DOMAIN bks
       /\ Completable(bks[event.bookingId])
    THEN [bks EXCEPT ![event.bookingId].bookingStatus = BookingCompleted,
                     ![event.bookingId].paymentStatus = PaymentCompleted]
    ELSE bks

Events == [authentic : BOOLEAN, fails : BOOLEAN, bookingId : RequestIds]

\* PaymentReceiveController.handleWebhookEvent: awaits the service; @HttpCode(200)
\* is the status of a normal return, an exception goes to the framework's
\* exception filter, which answers with an error status
handleWebhookEvent(event) ==
    /\ bookings' = ServiceApply(bookings, event)
    /\ response' = [endpoint |-> "WebhookEvent",
                     message |-> IF ServiceThrows(event) THEN HttpError ELSE HttpOk]
    /\ UNCHANGED <<users, pc, call, quota, outbox>>

\* ------------------------------------------------------------ environment
\* cancellation of a booking: Initiated -> Cancelled
CancelBooking(b) ==
    /\ bookings[b].isActive
    /\ bookings[b].bookingStatus = BookingInitiated
    /\ bookings' = [bookings EXCEPT ![b].bookingStatus = BookingCancelled]
    /\ UNCHANGED <<users, pc, call, quota, response, outbox>>

\* soft delete of a booking
DeactivateBooking(b) ==
    /\ bookings[b].isActive
    /\ bookings' = [bookings EXCEPT ![b].isActive = FALSE]
    /\ UNCHANGED <<users, pc, call, quota, response, outbox>>

Next ==
    \/ \E p \in Procs, id \in RequestIds, dto \in Dtos : updateBookingLookup(p, id, dto)
    \/ \E p \in Procs : updateBookingCommit(p)
    \/ \E event \in Events : handleWebhookEvent(event)
    \/ \E b \in DOMAIN bookings : CancelBooking(b)
    \/ \E b \in DOMAIN bookings : DeactivateBooking(b)

Spec == Init /\ [][Next]_vars

SpecReport == InitReport /\ [][Next]_vars
\* ================================================================ claims
\* What the properties below observe, stated without the operators of the model.

\* a call of updateBooking starts in this step
Starts == quota' = quota - 1

\* a call slot finishes the second step of updateBooking in this step
Finishes(p) == pc[p] = "fetched" /\ pc'[p] = "idle"

\* ... and its write was applied (every response but the invalid-transition one
\* is sent after updateOneById)
Writes(p) == Finishes(p) /\ response'.message # MsgNotEligible

\* the eligibility of section 3 of the specification, negated
Ineligible(bks, id) ==
    \/ id \notin DOMAIN bks
    \/ bks[id].isActive = FALSE
    \/ bks[id].bookingStatus \in {BookingCancelled, BookingCompleted}
    \/ bks[id].paymentStatus = PaymentCompleted

\* the least whole amount that is not below x, in 1/Units
CeilOf(x) == CHOOSE n \in (x - Units)..(x + Units) : n % Units = 0 /\ n >= x /\ n - Units < x

Equation(doc) ==
    doc.totalAmount =
        CeilOf(doc.cleaningPrice + doc.additionalCharges + doc.suppliesCharges
               - doc.discountAmount)

\* C1: no write of updateBooking is applied to a booking that is inactive,
\* Cancelled, Completed or payment-Completed at the moment of the write.
C1_AtomicCheckAndWrite ==
    [][\A p \in Procs : Writes(p) => ~Ineligible(bookings, call[p].bookingId)]_vars

\* C2: no step moves bookingStatus from Completed or Cancelled back to Served or
\* Initiated, or from Served back to Initiated.
Backward(from, to) ==
    \/ from \in {BookingCompleted, BookingCancelled} /\ to \in {BookingServed, BookingInitiated}
    \/ from = BookingServed /\ to = BookingInitiated

C2_StatusOnlyForward ==
    [][\A b \in DOMAIN bookings :
          ~Backward(bookings[b].bookingStatus, bookings'[b].bookingStatus)]_vars

\* C3, as claimed: every call that starts on a booking that is missing or
\* ineligible fails with "No active booking found", changes no booking and sends
\* no mail.
C3_Original ==
    [][Starts => \A p \in Procs, id \in RequestIds, dto \in Dtos :
          updateBookingLookup(p, id, dto) /\ Ineligible(bookings, id)
          => /\ response' = [endpoint |-> "updateBooking", message |-> MsgNoActive]
             /\ pc'[p] = "idle"
             /\ bookings' = bookings
             /\ outbox' = outbox]_vars

\* C3, amended: every call with a non-empty body that starts on a booking that is
\* missing or ineligible fails with "No active booking found", changes no
\* booking and sends no mail; with an empty body it fails with "No fields to
\* update", also without any change.
C3_IneligibleRejected ==
    [][Starts => \A p \in Procs, id \in RequestIds, dto \in Dtos :
          updateBookingLookup(p, id, dto) /\ Ineligible(bookings, id)
          => /\ response' = [endpoint |-> "updateBooking",
                             message |-> IF dto.keys = {} THEN MsgNoFields
                                         ELSE MsgNoActive]
             /\ pc'[p] = "idle"
             /\ bookings' = bookings
             /\ outbox' = outbox]_vars

\* a call has just been refused on the stored booking 1, which is completed and paid
C3_Witness ==
    /\ response = [endpoint |-> "updateBooking", message |-> MsgNoActive]
    /\ quota < MaxCalls
    /\ bookings[1].paymentStatus = PaymentCompleted
    /\ bookings[1].bookingStatus = BookingCompleted

\* C4: every stored booking satisfies
\* totalAmount = ceil(cleaningPrice + additionalCharges + suppliesCharges - discountAmount)
\* in every reachable state, whatever the interleaving of the calls.
C4_TotalAmountEquation == \A b \in DOMAIN bookings : Equation(bookings[b])

\* two calls were accepted, the booking carries a fractional charge and its
\* total was rounded up
C4_Witness ==
    /\ quota <= MaxCalls - 2
    /\ response = [endpoint |-> "updateBooking", message |-> MsgUpdated]
    /\ bookings[1].additionalCharges % Units # 0
    /\ bookings[1].bookingStatus = BookingServed

\* the call in slot p read a booking that was not Initiated and asks to mark it served
ServedTwice(p) ==
    /\ pc[p] = "fetched"
    /\ call[p].dto.markAsServed
    /\ call[p].bookingStatus # BookingInitiated

\* C5, as claimed: markAsServed on a booking that is not Initiated fails with the
\* invalid-transition error and modifies nothing.
C5_Original ==
    [][/\ Starts => \A p \in Procs, id \in DOMAIN bookings, dto \in Dtos :
             /\ updateBookingLookup(p, id, dto)
             /\ dto.markAsServed
             /\ bookings[id].bookingStatus # BookingInitiated
             => /\ bookings' = bookings
                /\ outbox' = outbox
                /\ pc'[p] = "idle" =>
                       response' = [endpoint |-> "updateBooking",
                                    message |-> MsgNotEligible]
       /\ \A p \in Procs :
             ServedTwice(p) /\ Finishes(p)
             => /\ response' = [endpoint |-> "updateBooking", message |-> MsgNotEligible]
                /\ bookings' = bookings
                /\ outbox' = outbox]_vars

\* C5, amended: markAsServed on a booking that the lookup finds not Initiated
\* always fails and modifies nothing: with the invalid-transition error when the
\* booking is eligible (Served), with "No active booking found" when it is
\* inactive, Cancelled, Completed or paid.
C5_MarkServedRejected ==
    [][/\ Starts => \A p \in Procs, id \in DOMAIN bookings, dto \in Dtos :
             /\ updateBookingLookup(p, id, dto)
             /\ dto.markAsServed
             /\ bookings[id].bookingStatus # BookingInitiated
             => /\ bookings' = bookings
                /\ outbox' = outbox
                /\ IF Ineligible(bookings, id)
                   THEN /\ pc'[p] = "idle"
                        /\ response' = [endpoint |-> "updateBooking",
                                        message |-> MsgNoActive]
                   ELSE /\ pc'[p] = "fetched"
                        /\ call'[p].bookingStatus = BookingServed
                        /\ response' = response
       /\ \A p \in Procs :
             ServedTwice(p) /\ Finishes(p)
             => /\ response' = [endpoint |-> "updateBooking", message |-> MsgNotEligible]
                /\ bookings' = bookings
                /\ outbox' = outbox]_vars

\* a second markAsServed has just been refused on the served booking
C5_Witness ==
    /\ response = [endpoint |-> "updateBooking", message |-> MsgNotEligible]
    /\ bookings[1].bookingStatus = BookingServed
    /\ bookings[1].isActive

\* C6: whenever updateBooking reports an error, no booking was changed by the call.
C6_ErrorMeansUnchanged ==
    [][\A p \in Procs :
          Finishes(p) /\ response'.message # MsgUpdated => bookings' = bookings]_vars

\* C7: every webhook delivery is answered with HTTP 200.
C7_WebhookAlways200 ==
    response.endpoint = "WebhookEvent" => response.message = HttpOk

\* C9: at most one served mail is sent for a booking (Spec stores one booking).
C9_OneServedMail ==
    \A m \in DOMAIN outbox : m.kind = "served" => outbox[m] <= 1

\* C10: an accepted call whose body carries additionalCharges = c stores c and
\* the total recomputed from the stored price components, for every c >= 0.
C10_ChargesStored ==
    [][\A p \in Procs :
          /\ Finishes(p)
          /\ response'.message = MsgUpdated
          /\ "additionalCharges" \in call[p].dto.keys
          => LET b == call[p].bookingId
                 c == call[p].dto.additionalCharges
             IN /\ bookings'[b].additionalCharges = c
                /\ bookings'[b].totalAmount =
                       CeilOf(bookings[b].cleaningPrice + c
                              + bookings[b].suppliesCharges
                              - bookings[b].discountAmount)]_vars

\* ------------------------------------------------------------ C8: reports
InReport(doc) ==
    doc.bookingStatus = BookingCompleted /\ doc.paymentStatus = PaymentCompleted

RECURSIVE EarningsUpTo(_, _)
EarningsUpTo(bks, n) ==
    IF n = 0 THEN 0
    ELSE EarningsUpTo(bks, n - 1)
         + IF n \in DOMAIN bks /\ InReport(bks[n]) THEN bks[n].totalAmount ELSE 0

CompletedCount(bks, usrs, u) ==
    Cardinality({b \in DOMAIN bks : InReport(bks[b]) /\ bks[b].bookingUser = u
                                    /\ usrs[u] = "active"})

ReportsExact ==
    /\ getTotalBookingEarnings(bookings) = EarningsUpTo(bookings, Cardinality(BookingIds))
    /\ LET top == findTopUsersByBooking(bookings, users)
       IN /\ \A i \in 1..Len(top) :
                 /\ top[i].totalBookingCount =
                        CompletedCount(bookings, users, top[i].bookingUser)
                 /\ top[i].totalBookingCount > 0
          /\ \A u \in UserIds :
                 CompletedCount(bookings, users, u) > 0
                 => \E i \in 1..Len(top) : top[i].bookingUser = u
          /\ \A i, j \in 1..Len(top) :
                 i < j => top[i].totalBookingCount >= top[j].totalBookingCount

\* every booking this step changes is outside the report before and after it
OnlyOutsideChanged ==
    \A b \in DOMAIN bookings :
        bookings'[b] # bookings[b] => ~InReport(bookings[b]) /\ ~InReport(bookings'[b])

\* C8: getTotalBookingEarnings is the sum of totalAmount over the bookings that
\* are Completed and payment-Completed (0 when there are none),
\* findTopUsersByBooking counts only such bookings, and a step that changes only
\* bookings outside that set, leaving them outside, changes neither result.
C8_ReportsOnlyCompleted ==
    /\ []ReportsExact
    /\ [][OnlyOutsideChanged
          => /\ getTotalBookingEarnings(bookings') = getTotalBookingEarnings(bookings)
             /\ findTopUsersByBooking(bookings', users')
                    = findTopUsersByBooking(bookings, users)]_vars

\* one booking is in the report with a changed total while the other one, which
\* is outside the report, has been updated by a call
C8_Witness ==
    /\ InReport(bookings[1])
    /\ getTotalBookingEarnings(bookings) > 0
    /\ Len(findTopUsersByBooking(bookings, users)) > 0
    /\ ~InReport(bookings[2])
    /\ bookings[2].additionalCharges # 0

=============================================================================
